---------------------------- MODULE Spec2Model ----------------------------
(***************************************************************************)
(* A model of hubtty's configuration resolution (src/hubtty/config.py):    *)
(* Config.__init__ with its stages (verifyConfigFile, schema validation,   *)
(* getServer, URL normalisation, getToken, the palette / keymap /          *)
(* dashboard / reviewkey / size-column resolution) and the credential      *)
(* store kept by Config.getToken.                                          *)
(*                                                                         *)
(* Strings the code inspects character by character (URLs, the bytes of    *)
(* the credential file) are sequences of one-character strings; strings    *)
(* the code only compares are TLA+ strings.  Python's None / a missing     *)
(* value is the empty sequence << >>, a present value x is <<x>>.          *)
(***************************************************************************)
EXTENDS Integers, Sequences, FiniteSets, TLC

VARIABLES
    \* ---- the credential file (DEFAULT_SECURE_PATH) and the collaborator
    fs,            \* [exists, data, mode]: the file on disk
    acquireCalls,  \* number of calls made to hubtty.auth.getToken
    \* ---- sequential callers of Config.getToken
    ncalls,        \* number of getToken calls made so far
    last,          \* what the latest getToken call did
    persisted,     \* server name -> the token last written for it
    \* ---- two processes inside Config.getToken
    proc,          \* process -> its position and locals
    lastWrite,     \* the bytes of the latest yaml.dump, << >> before any
    \* ---- Config.__init__
    pc,            \* position inside __init__
    args,          \* [server, palette, keymap, path]: the call's arguments
    cfg,           \* the fields of the Config object set so far
    err,           \* the exception that ended __init__, "" if none
    exists,        \* the configuration files that exist on disk
    doc,           \* the document as yaml.safe_load returned it
    cred0,         \* the credential file as it was at the start
    trace          \* the stages __init__ has run, in order

credVars == <<ncalls, last, persisted>>
raceVars == <<proc, lastWrite>>
initVars == <<pc, args, cfg, err, exists, doc, cred0, trace>>
vars == <<fs, acquireCalls, credVars, raceVars, initVars>>

(***************************************************************************)
(* Bounds of the model.                                                    *)
(***************************************************************************)
MaxTokLen == 3      \* longest token the collaborator returns
MaxCalls == 3       \* sequential getToken calls
MaxServers == 2     \* entries of the document's servers list
MaxNamed == 2       \* entries of the document's palettes / keymaps list
MaxKeyed == 3       \* entries of the document's dashboards / reviewkeys list

None == << >>
Some(x) == <<x>>

\* dict.get(k, default)
Get(d, k, default) == IF k \in DOMAIN d THEN d[k] ELSE default

\* Sequences over S of length at most n
SeqUpTo(S, n) == UNION {[1..k -> S] : k \in 0..n}

(***************************************************************************)
(* The credential store: Config.getToken                                   *)
(***************************************************************************)
Names == {"a", "b"}            \* server names
NameOrder == <<"a", "b">>      \* yaml.dump writes the keys sorted
TokChars == {"x", "y"}
\* the tokens hubtty.auth.getToken may return: equal or different in length
Tokens == {<<c>> : c \in TokChars} \cup {[i \in 1..k |-> "x"] : k \in 2..MaxTokLen}
Urls == {<<"h", "/">>, <<"g", "/">>}

MODE_0600 == 384    \* 0o600
CREATE_MODE == 420  \* 0o666 masked by the usual umask 0o022: 0o644
Modes == {MODE_0600, CREATE_MODE, 438}

\* yaml.dump(auth, f): one "name:\n  token: tok\n" block per server, keys
\* sorted; the fixed text between the name and the token is the one
\* character ":".
RECURSIVE DumpFrom(_, _)
DumpFrom(auth, i) ==
    IF i > Len(NameOrder) THEN << >>
    ELSE LET n == NameOrder[i]
         IN (IF n \in DOMAIN auth THEN <<n, ":">> \o auth[n] \o <<"\n">>
                                  ELSE << >>) \o DumpFrom(auth, i + 1)

Dump(auth) == DumpFrom(auth, 1)

\* The first index from k on that holds no token character
RECURSIVE TokEnd(_, _)
TokEnd(data, k) ==
    IF k > Len(data) \/ data[k] \notin TokChars THEN k ELSE TokEnd(data, k + 1)

\* yaml.safe_load(f) or {}: the mapping the bytes hold, or a parse error.
\* Blank lines are skipped, a repeated key keeps its last value.
RECURSIVE ParseFrom(_, _, _)
ParseFrom(data, i, acc) ==
    IF i > Len(data) THEN [ok |-> TRUE, map |-> acc]
    ELSE IF data[i] = "\n" THEN ParseFrom(data, i + 1, acc)
    ELSE IF data[i] \in Names /\ i + 1 <= Len(data) /\ data[i + 1] = ":"
    THEN LET j == TokEnd(data, i + 2)
         IN IF j > Len(data) \/ data[j] = "\n"
            THEN ParseFrom(data, j + 1,
                           (data[i] :> SubSeq(data, i + 2, j - 1)) @@ acc)
            ELSE [ok |-> FALSE, map |-> acc]
    ELSE [ok |-> FALSE, map |-> acc]

Parse(data) == ParseFrom(data, 1, << >>)

\* open(path, 'w+'): creates the file or truncates it to zero length; an
\* existing file keeps its mode.
OpenW(f) ==
    [exists |-> TRUE, data |-> << >>,
     mode |-> IF f.exists THEN f.mode ELSE CREATE_MODE]

\* A write of `new` at byte offset pos (a gap is filled with NUL, "0")
WriteAt(data, pos, new) ==
    LET hi == IF Len(data) > pos + Len(new) THEN Len(data) ELSE pos + Len(new)
    IN [i \in 1..hi |->
           IF i > pos /\ i <= pos + Len(new) THEN new[i - pos]
           ELSE IF i <= Len(data) THEN data[i] ELSE "0"]

\* os.chmod(path, 0o600)
ChmodSkipped(f) == f

Chmod(f) == [f EXCEPT !.mode = MODE_0600]

\* conf = auth.get(name, {}); token = conf.get('token')
StoredToken(auth, name) == Get(auth, name, << >>)

\* The credential files a call may find: none, an empty one, or a store
\* written earlier
StoredMaps == {m \in UNION {[D -> Tokens] : D \in SUBSET Names} :
                  \A n \in DOMAIN m : Len(m[n]) = 1}
InitFiles ==
    {[exists |-> FALSE, data |-> << >>, mode |-> CREATE_MODE]}
    \cup {[exists |-> TRUE, data |-> Dump(m), mode |-> md] :
             m \in StoredMaps, md \in Modes}

NoCall == [name |-> "", url |-> << >>, status |-> "none", ret |-> << >>,
           acquired |-> FALSE, wrote |-> FALSE, modeBefore |-> 0,
           existed |-> FALSE]

NoProcs == << >>

\* The values the variables of Config.__init__ hold while it is not running
IdleArgs == [server |-> None, palette |-> "default", keymap |-> "default",
             path |-> None]
IdleCfg == [path |-> None, config |-> None, server |-> None,
            api_url |-> << >>, url |-> << >>, username |-> "",
            token |-> << >>, git_url |-> << >>,
            palettes |-> << >>, palette |-> None,
            keymaps |-> << >>, keymap |-> None,
            dashboards |-> << >>, reviewkeys |-> << >>,
            size_column |-> None]

CredIdle ==
    /\ ncalls = 0 /\ last = NoCall /\ persisted = << >>

RaceIdle ==
    /\ proc = NoProcs /\ lastWrite = << >>

InitIdle ==
    /\ pc = "idle" /\ args = IdleArgs /\ cfg = IdleCfg
    /\ err = "" /\ exists = {} /\ doc = None
    /\ cred0 = fs /\ trace = << >>

(***************************************************************************)
(* Config.getToken(name, url) run to its end on the credential file f.     *)
(* t is the token hubtty.auth.getToken(url) returns when asked, ok whether *)
(* it returns at all (it raises otherwise).                                *)
(***************************************************************************)
GetTokenRun(f, name, t, ok) ==
    LET f1 == OpenW(f)                        \* line 261
        p == Parse(f1.data)                   \* line 262
        tok == StoredToken(p.map, name)       \* lines 263-264
        auth2 == (name :> t) @@ p.map         \* lines 267-268
        f2 == [f1 EXCEPT !.data = WriteAt(f1.data, Len(f1.data), Dump(auth2))]
    IN IF ~p.ok
       THEN \* yaml.safe_load raises; the with block closes the file
            [fs |-> f1, status |-> "raised", ret |-> << >>,
             acquired |-> FALSE, wrote |-> FALSE]
       ELSE IF tok # << >>
       THEN \* the cached token: no acquisition, no write
            [fs |-> Chmod(f1), status |-> "returned", ret |-> tok,
             acquired |-> FALSE, wrote |-> FALSE]
       ELSE IF ~ok
       THEN \* hubtty.auth.getToken raises: line 270 is not reached
            [fs |-> f1, status |-> "raised", ret |-> << >>,
             acquired |-> TRUE, wrote |-> FALSE]
       ELSE [fs |-> Chmod(f2), status |-> "returned", ret |-> t,
             acquired |-> TRUE, wrote |-> TRUE]

\* One of a sequence of calls of getToken, each finished before the next
GetToken(name, url, t, ok) ==
    LET r == GetTokenRun(fs, name, t, ok)
    IN /\ ncalls < MaxCalls
       /\ ncalls' = ncalls + 1
       /\ fs' = r.fs
       /\ acquireCalls' = acquireCalls + (IF r.acquired THEN 1 ELSE 0)
       /\ persisted' = IF r.wrote THEN (name :> t) @@ persisted ELSE persisted
       /\ last' = [name |-> name, url |-> url, status |-> r.status,
                   ret |-> r.ret, acquired |-> r.acquired, wrote |-> r.wrote,
                   modeBefore |-> fs.mode, existed |-> fs.exists]
       /\ UNCHANGED <<raceVars, initVars>>

InitCred ==
    /\ fs \in InitFiles
    /\ acquireCalls = 0
    /\ CredIdle /\ RaceIdle /\ InitIdle

NextCred == \E name \in Names, url \in Urls, t \in Tokens, ok \in BOOLEAN :
               GetToken(name, url, t, ok)

SpecCred == InitCred /\ [][NextCred]_vars

(***************************************************************************)
(* Two processes inside Config.getToken at once, one step per system call: *)
(* open (line 261), read (262-265), acquire (266-268), write (269), close  *)
(* (the end of the with block), chmod (270), return (272).                 *)
(***************************************************************************)
Procs == {1, 2}

\* What a step of a process inside getToken leaves alone
OutsideRace == UNCHANGED <<credVars, initVars>>

PStart(name) == [pc |-> "open", name |-> name, pos |-> 0, auth |-> << >>,
                 token |-> << >>, acquired |-> << >>, wrote |-> FALSE]

\* line 261: with open(path, 'w+') as f
POpen(p) ==
    /\ proc[p].pc = "open"
    /\ fs' = OpenW(fs)
    /\ proc' = [proc EXCEPT ![p].pc = "read", ![p].pos = 0]
    /\ UNCHANGED <<acquireCalls, lastWrite>>
    /\ OutsideRace

\* lines 262-265: the whole file is read from the start; the offset moves
\* to the end of what was read
PRead(p) ==
    /\ proc[p].pc = "read"
    /\ LET r == Parse(fs.data)
           tok == StoredToken(r.map, proc[p].name)
       IN proc' = [proc EXCEPT
                     ![p].pc = IF ~r.ok THEN "raised"
                               ELSE IF tok # << >> THEN "close" ELSE "acquire",
                     ![p].pos = Len(fs.data),
                     ![p].auth = r.map,
                     ![p].token = tok]
    /\ UNCHANGED <<fs, acquireCalls, lastWrite>>
    /\ OutsideRace

\* lines 266-268: token = hubtty.auth.getToken(url)
PAcquire(p) ==
    /\ proc[p].pc = "acquire"
    /\ \E t \in Tokens :
          proc' = [proc EXCEPT ![p].pc = "write",
                               ![p].token = t,
                               ![p].acquired = Some(t),
                               ![p].auth = (proc[p].name :> t) @@ proc[p].auth]
    /\ acquireCalls' = acquireCalls + 1
    /\ UNCHANGED <<fs, lastWrite>>
    /\ OutsideRace

\* line 269: yaml.dump(auth, f) writes at the handle's offset and flushes
PWrite(p) ==
    /\ proc[p].pc = "write"
    /\ LET bytes == Dump(proc[p].auth)
       IN /\ fs' = [fs EXCEPT !.data = WriteAt(fs.data, proc[p].pos, bytes)]
          /\ lastWrite' = bytes
          /\ proc' = [proc EXCEPT ![p].pc = "close", ![p].wrote = TRUE,
                                  ![p].pos = proc[p].pos + Len(bytes)]
    /\ UNCHANGED acquireCalls
    /\ OutsideRace

\* the end of the with block
PClose(p) ==
    /\ proc[p].pc = "close"
    /\ proc' = [proc EXCEPT ![p].pc = "chmod"]
    /\ UNCHANGED <<fs, acquireCalls, lastWrite>>
    /\ OutsideRace

\* lines 270-272: os.chmod(path, 0o600); return token
PChmod(p) ==
    /\ proc[p].pc = "chmod"
    /\ fs' = Chmod(fs)
    /\ proc' = [proc EXCEPT ![p].pc = "returned"]
    /\ UNCHANGED <<acquireCalls, lastWrite>>
    /\ OutsideRace

InitRace ==
    /\ fs \in InitFiles
    /\ acquireCalls = 0
    /\ proc \in {[p \in Procs |-> PStart(n[p])] : n \in [Procs -> Names]}
    /\ lastWrite = << >>
    /\ CredIdle /\ InitIdle

NextRace ==
    \/ \E p \in Procs : POpen(p)
    \/ \E p \in Procs : PRead(p)
    \/ \E p \in Procs : PAcquire(p)
    \/ \E p \in Procs : PWrite(p)
    \/ \E p \in Procs : PClose(p)
    \/ \E p \in Procs : PChmod(p)

SpecRace == InitRace /\ [][NextRace]_vars

(***************************************************************************)
(* The configuration document and ConfigSchema                             *)
(*                                                                         *)
(* A document is a function from its top-level keys to their values, a     *)
(* mapping inside it a function from its keys.  Every value of the model   *)
(* has the type the schema declares for it, so the schema's checks that    *)
(* can fail here are the closed key sets, the Required keys and the        *)
(* enumeration of size-column's type.                                      *)
(***************************************************************************)
DEFAULT_CONFIG_PATH == "~/.config/hubtty/hubtty.yaml"
FALLBACK_CONFIG_PATH == "~/.hubtty.yaml"
ExplicitPath == "/etc/hubtty.yaml"

\* os.path.expanduser
ExpandUser(path) ==
    CASE path = DEFAULT_CONFIG_PATH -> "/home/u/.config/hubtty/hubtty.yaml"
      [] path = FALLBACK_CONFIG_PATH -> "/home/u/.hubtty.yaml"
      [] OTHER -> path

DEFAULT_API_URL == <<"a", "p", "i", ".", "g", "h", "/">>  \* 'https://api.github.com/'
DEFAULT_URL == <<"g", "h", "/">>                         \* 'https://github.com/'
DEFAULT_GIT_URL == <<"g", "h", "/">>                     \* 'https://github.com/'

\* The URLs a server profile may carry: without and with a trailing slash
DocUrls == {<<"e">>, <<"e", "/">>}

ServerKeys == {"name", "api-url", "url", "username", "dburi", "git-root",
               "git-url", "log-file", "lock-file", "socket"}
ServerRequired == {"name", "username", "git-root"}
TopKeys == {"servers", "palettes", "palette", "keymaps", "keymap",
            "commentlinks", "dashboards", "reviewkeys", "change-list-query",
            "diff-view", "hide-comments", "thread-changes",
            "display-times-in-utc", "handle-mouse", "breadcrumbs",
            "close-change-on-review", "change-list-options", "expire-age",
            "size-column"}
DashboardRequired == {"name", "query", "key"}
DashboardKeys == DashboardRequired \cup {"sort-by", "reverse"}
ReviewkeyRequired == {"approvals", "key"}
ReviewkeyKeys == ReviewkeyRequired \cup {"message", "submit"}
SizeTypes == {"graph", "split-graph", "number", "disabled", "None"}

\* v.Match('(?!name)'): the keys of a palette or keymap besides 'name'
\* must not begin with "name"; the model's keys are these
EntryKeys == {"k1", "k2"}

ValidServer(sv) ==
    /\ DOMAIN sv \subseteq ServerKeys
    /\ ServerRequired \subseteq DOMAIN sv

ValidNamed(e) ==
    /\ "name" \in DOMAIN e
    /\ DOMAIN e \subseteq {"name"} \cup EntryKeys

ValidDashboard(d) ==
    /\ DOMAIN d \subseteq DashboardKeys
    /\ DashboardRequired \subseteq DOMAIN d

ValidReviewkey(k) ==
    /\ DOMAIN k \subseteq ReviewkeyKeys
    /\ ReviewkeyRequired \subseteq DOMAIN k

\* thresholds = [int, int, int, int, int, int, int, int]: a voluptuous
\* list schema accepts a list of any length whose every element matches
\* one of the listed validators
ValidSizeColumn(sc) ==
    /\ DOMAIN sc \subseteq {"type", "thresholds"}
    /\ "type" \in DOMAIN sc
    /\ sc["type"] \in SizeTypes
    /\ "thresholds" \in DOMAIN sc =>
          \A i \in DOMAIN sc["thresholds"] : sc["thresholds"][i] \in Int

\* schema(self.config) raises nothing
Valid(d) ==
    /\ DOMAIN d \subseteq TopKeys
    /\ "servers" \in DOMAIN d
    /\ \A i \in DOMAIN d["servers"] : ValidServer(d["servers"][i])
    /\ "palettes" \in DOMAIN d =>
          \A i \in DOMAIN d["palettes"] : ValidNamed(d["palettes"][i])
    /\ "keymaps" \in DOMAIN d =>
          \A i \in DOMAIN d["keymaps"] : ValidNamed(d["keymaps"][i])
    /\ "dashboards" \in DOMAIN d =>
          \A i \in DOMAIN d["dashboards"] : ValidDashboard(d["dashboards"][i])
    /\ "reviewkeys" \in DOMAIN d =>
          \A i \in DOMAIN d["reviewkeys"] : ValidReviewkey(d["reviewkeys"][i])
    /\ "size-column" \in DOMAIN d => ValidSizeColumn(d["size-column"])

(***************************************************************************)
(* The documents of the model.  Each family varies one part of the         *)
(* document over a document with one plain server.                         *)
(***************************************************************************)
Profile(name, user) ==
    ("name" :> name) @@ ("username" :> user) @@ ("git-root" :> "~/git")

Optional(key, values) == {<< >>} \cup {key :> x : x \in values}

BaseDoc == "servers" :> <<Profile("a", "u1")>>

\* servers: up to MaxServers profiles, names and users repeated or not
Profiles == {Profile(n, u) : n \in Names, u \in {"u1", "u2"}}
ServerDocs == {"servers" :> l : l \in SeqUpTo(Profiles, MaxServers)}

\* one server with each URL key left out, or given without or with a slash
UrlDocs ==
    {"servers" :> <<a @@ u @@ g @@ Profile("a", "u1")>> :
        a \in Optional("api-url", DocUrls),
        u \in Optional("url", DocUrls),
        g \in Optional("git-url", DocUrls)}

\* palettes and keymaps: entries named after a built-in or not, each
\* giving some of the keys
EntryBodies == {"k1" :> "x", "k1" :> "y", "k2" :> "x"}
PaletteEntries == {("name" :> n) @@ b : n \in {"light", "mine"}, b \in EntryBodies}
KeymapEntries == {("name" :> n) @@ b : n \in {"vi", "mine"}, b \in EntryBodies}
PaletteDocs ==
    {("palettes" :> l) @@ sel @@ BaseDoc :
        l \in SeqUpTo(PaletteEntries, MaxNamed),
        sel \in Optional("palette", {"mine", "light"})}
KeymapDocs ==
    {("keymaps" :> l) @@ sel @@ BaseDoc :
        l \in SeqUpTo(KeymapEntries, MaxNamed),
        sel \in Optional("keymap", {"mine", "vi"})}

\* dashboards and reviewkeys: entries with repeated keys
Dashboard(key, name) ==
    ("key" :> key) @@ ("name" :> name) @@ ("query" :> "is:open")
Reviewkey(key, msg) ==
    ("key" :> key) @@ ("message" :> msg) @@ ("approvals" :> << >>)
Dashboards == {Dashboard(k, n) : k \in {"f1", "f2"}, n \in {"n1", "n2"}}
Reviewkeys == {Reviewkey(k, n) : k \in {"f1", "f2"}, n \in {"m1", "m2"}}
KeyedDocs ==
    {("dashboards" :> l) @@ BaseDoc : l \in SeqUpTo(Dashboards, MaxKeyed)}
    \cup {("reviewkeys" :> l) @@ BaseDoc : l \in SeqUpTo(Reviewkeys, MaxKeyed)}

\* size-column: every type, thresholds left out or given
DocThresholds == {<<1, 2, 3, 4, 5, 6, 7, 8>>, <<5, 50>>}
SizeDocs ==
    {("size-column" :> (("type" :> t) @@ th)) @@ BaseDoc :
        t \in SizeTypes, th \in Optional("thresholds", DocThresholds)}

\* documents the schema rejects
InvalidDocs ==
    { << >>,                                             \* no servers
      ("bogus" :> "x") @@ BaseDoc,                       \* an unknown key
      "servers" :> <<"name" :> "a">>,                    \* no username
      "servers" :> <<("api_url" :> <<"e">>) @@ Profile("a", "u1")>>,
      ("palettes" :> <<"k1" :> "x">>) @@ BaseDoc,        \* no name
      ("dashboards" :> <<"name" :> "n1">>) @@ BaseDoc,   \* no key
      ("size-column" :> ("type" :> "huge")) @@ BaseDoc,  \* not in the enum
      ("size-column" :> ("thresholds" :> <<1>>)) @@ BaseDoc }  \* no type

\* the documents that vary the server profiles, and those that vary the
\* collections merged after the server is chosen
ProfileDocs == ServerDocs \cup UrlDocs \cup InvalidDocs
CollectionDocs == PaletteDocs \cup KeymapDocs \cup KeyedDocs \cup SizeDocs

(***************************************************************************)
(* Config.__init__, one action per stage                                   *)
(***************************************************************************)
Min(S) == CHOOSE x \in S : \A y \in S : x <= y
Max(S) == CHOOSE x \in S : \A y \in S : x >= y

Stage(name) == trace' = Append(trace, name)

Raise(e) == pc' = "error" /\ err' = e

\* verifyConfigFile: the first of path, DEFAULT_CONFIG_PATH and
\* FALLBACK_CONFIG_PATH that is given and exists, expanded; None when the
\* loop ends without one
FindConfigFile(path, onDisk) ==
    LET cands == <<path, Some(DEFAULT_CONFIG_PATH), Some(FALLBACK_CONFIG_PATH)>>
        found == {i \in 1..3 : /\ cands[i] # None
                               /\ ExpandUser(cands[i][1]) \in onDisk}
    IN IF found = {} THEN None ELSE Some(ExpandUser(cands[Min(found)][1]))

\* line 144: self.path = self.verifyConfigFile(path), or printSample and
\* sys.exit(1)
VerifyConfigFile ==
    /\ pc = "start"
    /\ Stage("verifyConfigFile")
    /\ LET found == FindConfigFile(args.path, exists)
       IN IF found = None
          THEN /\ pc' = "exit" /\ err' = "SystemExit(1)"
               /\ UNCHANGED cfg
          ELSE /\ pc' = "load" /\ cfg' = [cfg EXCEPT !.path = found]
               /\ UNCHANGED err
    /\ UNCHANGED <<fs, acquireCalls, credVars, raceVars, args, exists, doc, cred0>>

\* line 146: self.config = yaml.safe_load(open(self.path)), the file
\* holding one of the documents of `docs`
LoadFrom(docs) ==
    /\ pc = "load"
    /\ Stage("load")
    /\ \E d \in docs :
          /\ cfg' = [cfg EXCEPT !.config = Some(d)]
          /\ doc' = Some(d)
    /\ pc' = "validate"
    /\ UNCHANGED <<fs, acquireCalls, credVars, raceVars, args, err, exists, cred0>>

Load == LoadFrom(ProfileDocs)

LoadCollections == LoadFrom(CollectionDocs)

\* line 146, the file not being YAML: yaml.safe_load raises
LoadRaises ==
    /\ pc = "load"
    /\ Stage("load")
    /\ Raise("YAMLError")
    /\ UNCHANGED <<fs, acquireCalls, credVars, raceVars, args, cfg, exists, doc, cred0>>

\* lines 147-148: schema(self.config)
ValidateSkipped ==
    /\ pc = "validate"
    /\ Stage("validate")
    /\ pc' = "getServer"
    /\ UNCHANGED <<fs, acquireCalls, credVars, raceVars, args, cfg, err, exists, doc, cred0>>

Validate ==
    /\ pc = "validate"
    /\ Stage("validate")
    /\ IF Valid(cfg.config[1])
       THEN pc' = "getServer" /\ UNCHANGED err
       ELSE Raise("MultipleInvalid")
    /\ UNCHANGED <<fs, acquireCalls, credVars, raceVars, args, cfg, exists, doc, cred0>>

\* getServer(name): the first server for which `name is None or name ==
\* server['name']`, None after the loop; a server without 'name' raises
\* KeyError when it is compared
RECURSIVE GetServerFrom(_, _, _)
GetServerFrom(servers, name, i) ==
    IF i > Len(servers) THEN [raised |-> FALSE, value |-> None]
    ELSE IF name = None THEN [raised |-> FALSE, value |-> Some(servers[i])]
    ELSE IF "name" \notin DOMAIN servers[i] THEN [raised |-> TRUE, value |-> None]
    ELSE IF name[1] = servers[i]["name"]
    THEN [raised |-> FALSE, value |-> Some(servers[i])]
    ELSE GetServerFrom(servers, name, i + 1)

GetServerFallsBack(servers, name) ==
    LET r == GetServerFrom(servers, name, 1)
    IN IF ~r.raised /\ r.value = None /\ Len(servers) > 0
       THEN [raised |-> FALSE, value |-> Some(servers[1])]
       ELSE r

GetServer(servers, name) == GetServerFrom(servers, name, 1)

\* if not url.endswith('/'): url += '/'
EnsureSlash(u) ==
    IF Len(u) > 0 /\ u[Len(u)] = "/" THEN u ELSE Append(u, "/")

\* lines 149-159: the server and the fields read from it before the token.
\* None.get raises AttributeError at line 151, after line 150 has stored
\* the None.
SelectServer ==
    /\ pc = "getServer"
    /\ Stage("getServer")
    /\ LET config == cfg.config[1]
       IN IF "servers" \notin DOMAIN config
          THEN Raise("KeyError") /\ UNCHANGED cfg
          ELSE LET r == GetServer(config["servers"], args.server)
               IN IF r.raised
                  THEN Raise("KeyError") /\ UNCHANGED cfg
                  ELSE IF r.value = None
                  THEN /\ Raise("AttributeError")
                       /\ cfg' = [cfg EXCEPT !.server = None]
                  ELSE LET server == r.value[1]
                           api_url == EnsureSlash(Get(server, "api_url", DEFAULT_API_URL))
                           url == EnsureSlash(Get(server, "url", DEFAULT_URL))
                       IN IF "username" \notin DOMAIN server
                          THEN /\ Raise("KeyError")
                               /\ cfg' = [cfg EXCEPT !.server = r.value,
                                                     !.api_url = api_url,
                                                     !.url = url]
                          ELSE /\ pc' = "getToken"
                               /\ cfg' = [cfg EXCEPT !.server = r.value,
                                                     !.api_url = api_url,
                                                     !.url = url,
                                                     !.username = server["username"]]
                               /\ UNCHANGED err
    /\ UNCHANGED <<fs, acquireCalls, credVars, raceVars, args, exists, doc, cred0>>

\* line 160: self.token = self.getToken(server['name'], url)
TokenStage ==
    /\ pc = "getToken"
    /\ Stage("getToken")
    /\ \E t \in Tokens, ok \in BOOLEAN :
          LET r == GetTokenRun(fs, cfg.server[1]["name"], t, ok)
          IN /\ fs' = r.fs
             /\ acquireCalls' = acquireCalls + (IF r.acquired THEN 1 ELSE 0)
             /\ IF r.status = "returned"
                THEN /\ pc' = "serverFields"
                     /\ cfg' = [cfg EXCEPT !.token = r.ret]
                     /\ UNCHANGED err
                ELSE Raise("AuthError") /\ UNCHANGED cfg
    /\ UNCHANGED <<credVars, raceVars, args, exists, doc, cred0>>

\* lines 161-173, of which the model keeps git_url
ServerFields ==
    /\ pc = "serverFields"
    /\ Stage("serverFields")
    /\ cfg' = [cfg EXCEPT !.git_url =
                  EnsureSlash(Get(cfg.server[1], "git-url", DEFAULT_GIT_URL))]
    /\ pc' = "palettes"
    /\ UNCHANGED <<fs, acquireCalls, credVars, raceVars, args, err, exists, doc, cred0>>

(***************************************************************************)
(* hubtty.palette.Palette and hubtty.keymap.KeyMap: a mapping built from   *)
(* a configuration entry and amended by later ones, key by key.  'default' *)
(* is the empty entry, 'light' and 'vi' fixed built-in ones.               *)
(***************************************************************************)
LIGHT_PALETTE == ("k1" :> "L1") @@ ("k3" :> "L3")
VI_KEYMAP == ("k1" :> "V1") @@ ("k3" :> "V3")

EntryBody(p) == [k \in DOMAIN p \ {"name"} |-> p[k]]

Palette(p) == EntryBody(p)
PaletteUpdate(pal, p) == EntryBody(p) @@ pal

KeyMap(p) == EntryBody(p)
KeyMapUpdate(km, p) == EntryBody(p) @@ km

\* lines 179-182: one round of the loop over the document's palettes
MergePaletteReplaces(pals, p) == (p["name"] :> Palette(p)) @@ pals

MergePalette(pals, p) ==
    IF p["name"] \notin DOMAIN pals
    THEN (p["name"] :> Palette(p)) @@ pals
    ELSE [pals EXCEPT ![p["name"]] = PaletteUpdate(@, p)]

\* lines 188-191: one round of the loop over the document's keymaps
MergeKeymap(kms, p) ==
    IF p["name"] \notin DOMAIN kms
    THEN (p["name"] :> KeyMap(p)) @@ kms
    ELSE [kms EXCEPT ![p["name"]] = KeyMapUpdate(@, p)]

RECURSIVE MergePalettes(_, _, _)
MergePalettes(pals, list, i) ==
    IF i > Len(list) THEN pals
    ELSE MergePalettes(MergePalette(pals, list[i]), list, i + 1)

RECURSIVE MergeKeymaps(_, _, _)
MergeKeymaps(kms, list, i) ==
    IF i > Len(list) THEN kms
    ELSE MergeKeymaps(MergeKeymap(kms, list[i]), list, i + 1)

\* lines 175-183: self.palettes and self.palette; a name that is no key of
\* self.palettes raises KeyError
Palettes ==
    /\ pc = "palettes"
    /\ Stage("palettes")
    /\ LET config == cfg.config[1]
           builtin == ("default" :> Palette(<< >>)) @@ ("light" :> Palette(LIGHT_PALETTE))
           pals == MergePalettes(builtin, Get(config, "palettes", << >>), 1)
           name == Get(config, "palette", args.palette)
       IN IF name \in DOMAIN pals
          THEN /\ cfg' = [cfg EXCEPT !.palettes = pals, !.palette = Some(pals[name])]
               /\ pc' = "keymaps"
               /\ UNCHANGED err
          ELSE /\ cfg' = [cfg EXCEPT !.palettes = pals]
               /\ Raise("KeyError")
    /\ UNCHANGED <<fs, acquireCalls, credVars, raceVars, args, exists, doc, cred0>>

\* lines 185-192: self.keymaps and self.keymap
Keymaps ==
    /\ pc = "keymaps"
    /\ Stage("keymaps")
    /\ LET config == cfg.config[1]
           builtin == ("default" :> KeyMap(<< >>)) @@ ("vi" :> KeyMap(VI_KEYMAP))
           kms == MergeKeymaps(builtin, Get(config, "keymaps", << >>), 1)
           name == Get(config, "keymap", args.keymap)
       IN IF name \in DOMAIN kms
          THEN /\ cfg' = [cfg EXCEPT !.keymaps = kms, !.keymap = Some(kms[name])]
               /\ pc' = "keyed"
               /\ UNCHANGED err
          ELSE /\ cfg' = [cfg EXCEPT !.keymaps = kms]
               /\ Raise("KeyError")
    /\ UNCHANGED <<fs, acquireCalls, credVars, raceVars, args, exists, doc, cred0>>

\* OrderedDict.__setitem__: an OrderedDict is the sequence of its items in
\* insertion order; a key it holds keeps its place
OdIndex(od, key) == {i \in DOMAIN od : od[i].key = key}

OdSetMovesToEnd(od, key, value) ==
    Append(SelectSeq(od, LAMBDA it : it.key # key),
           [key |-> key, value |-> value])

OdSet(od, key, value) ==
    IF OdIndex(od, key) = {}
    THEN Append(od, [key |-> key, value |-> value])
    ELSE [od EXCEPT ![Min(OdIndex(od, key))] = [key |-> key, value |-> value]]

\* lines 209-211 and 214-215: for d in list: od[d['key']] = d
RECURSIVE Keyed(_, _, _)
Keyed(od, list, i) ==
    IF i > Len(list) THEN od
    ELSE Keyed(OdSet(od, list[i]["key"], list[i]), list, i + 1)

\* lines 208-215: self.dashboards and self.reviewkeys
KeyedCollections ==
    /\ pc = "keyed"
    /\ Stage("keyed")
    /\ LET config == cfg.config[1]
       IN cfg' = [cfg EXCEPT
                    !.dashboards = Keyed(<< >>, Get(config, "dashboards", << >>), 1),
                    !.reviewkeys = Keyed(<< >>, Get(config, "reviewkeys", << >>), 1)]
    /\ pc' = "sizeColumn"
    /\ UNCHANGED <<fs, acquireCalls, credVars, raceVars, args, err, exists, doc, cred0>>

GRAPH_THRESHOLDS == <<1, 10, 100, 1000>>
OTHER_THRESHOLDS == <<1, 10, 100, 200, 400, 600, 800, 1000>>

\* lines 234-241 on the mapping found under 'size-column' (or {})
SizeColumnIgnoresType(sc) ==
    ("type" :> Get(sc, "type", "graph"))
    @@ ("thresholds" :> Get(sc, "thresholds", GRAPH_THRESHOLDS))

SizeColumn(sc) ==
    LET type == Get(sc, "type", "graph")
    IN IF type = "graph"
       THEN ("type" :> type) @@ ("thresholds" :> Get(sc, "thresholds", GRAPH_THRESHOLDS))
       ELSE ("type" :> type) @@ ("thresholds" :> Get(sc, "thresholds", OTHER_THRESHOLDS))

\* lines 234-241: self.size_column is the very mapping of self.config when
\* the document has one, so the document's mapping is filled in as well
SizeColumnStage ==
    /\ pc = "sizeColumn"
    /\ Stage("sizeColumn")
    /\ LET config == cfg.config[1]
           sc == SizeColumn(Get(config, "size-column", << >>))
       IN cfg' = [cfg EXCEPT
                    !.size_column = Some(sc),
                    !.config = IF "size-column" \in DOMAIN config
                               THEN Some([config EXCEPT !["size-column"] = sc])
                               ELSE @]
    /\ pc' = "done"
    /\ UNCHANGED <<fs, acquireCalls, credVars, raceVars, args, err, exists, doc, cred0>>

(***************************************************************************)
(* Config(server, palette, keymap, path) on documents that vary the server *)
(* profiles                                                                *)
(***************************************************************************)
CandidateFiles(path) ==
    {ExpandUser(DEFAULT_CONFIG_PATH), ExpandUser(FALLBACK_CONFIG_PATH)}
    \cup (IF path = None THEN {} ELSE {ExpandUser(path[1])})

\* the credential files __init__ may find
StartFiles ==
    {[exists |-> FALSE, data |-> << >>, mode |-> CREATE_MODE],
     [exists |-> TRUE, data |-> Dump("a" :> <<"y">>), mode |-> CREATE_MODE]}

InitWith(argSets, fileSets) ==
    /\ fs \in fileSets
    /\ acquireCalls = 0
    /\ CredIdle /\ RaceIdle
    /\ pc = "start"
    /\ args \in argSets
    /\ cfg = IdleCfg
    /\ err = ""
    /\ exists \in SUBSET CandidateFiles(args.path)
    /\ doc = None
    /\ cred0 = fs
    /\ trace = << >>

Init ==
    InitWith([server : {None} \cup {Some(n) : n \in Names},
              palette : {"default"}, keymap : {"default"},
              path : {None, Some(ExplicitPath)}],
             StartFiles)

Next ==
    \/ VerifyConfigFile
    \/ Load
    \/ LoadRaises
    \/ Validate
    \/ SelectServer
    \/ TokenStage
    \/ ServerFields
    \/ Palettes
    \/ Keymaps
    \/ KeyedCollections
    \/ SizeColumnStage

Spec == Init /\ [][Next]_vars

(***************************************************************************)
(* Config(palette, keymap) on documents that vary the palettes, keymaps,   *)
(* dashboards, reviewkeys and the size column                              *)
(***************************************************************************)
InitMerge ==
    /\ InitWith([server : {None},
                 palette : {"default", "nope"}, keymap : {"default", "nope"},
                 path : {None}],
                {[exists |-> FALSE, data |-> << >>, mode |-> CREATE_MODE]})
    /\ exists # {}

NextMerge ==
    \/ VerifyConfigFile
    \/ LoadCollections
    \/ Validate
    \/ SelectServer
    \/ TokenStage
    \/ ServerFields
    \/ Palettes
    \/ Keymaps
    \/ KeyedCollections
    \/ SizeColumnStage

SpecMerge == InitMerge /\ [][NextMerge]_vars

(***************************************************************************)
(* The claims                                                              *)
(***************************************************************************)
Range(f) == {f[i] : i \in DOMAIN f}

InStore(f, name) == StoredToken(Parse(f.data).map, name)

\* C1: a getToken call for a server the store has no entry for asks the
\* collaborator once and persists the returned token; a call for a server
\* whose token the store holds asks the collaborator nothing, leaves the
\* file as it is and returns the stored token.
C1_RoundTrip ==
    [][\A n \in Names :
          (ncalls' = ncalls + 1 /\ last'.name = n /\ last'.status = "returned")
          => IF InStore(fs, n) = << >>
             THEN /\ acquireCalls' = acquireCalls + 1
                  /\ InStore(fs', n) = last'.ret
             ELSE /\ acquireCalls' = acquireCalls
                  /\ fs'.data = fs.data
                  /\ last'.ret = InStore(fs, n)]_vars

\* C2: a getToken call for one server leaves the stored entry of every
\* other server as it was.
C2_MergeKeepsOthers ==
    [][\A n \in Names, b \in Names :
          (/\ ncalls' = ncalls + 1 /\ last'.name = n /\ last'.status = "returned"
           /\ b # n /\ InStore(fs, b) # << >>)
          => InStore(fs', b) = InStore(fs, b)]_vars

\* C3: after a getToken call that wrote the credential file and returned,
\* the file's mode is exactly 0600, whatever it was before and also when
\* the call created the file.
C3_ModeAfterWrite ==
    (last.status = "returned" /\ last.wrote) => fs.exists /\ fs.mode = 384

C3_Witness ==
    /\ last.status = "returned" /\ last.wrote
    /\ ~last.existed
    /\ ncalls = 1

\* C4: of a valid document with at least one server, resolution without a
\* requested name selects the first server, with a requested name the
\* first server of that name, and with a name no server has it fails
\* right there: no server is selected and no later stage runs.
C4_ServerSelection ==
    ("getServer" \in Range(trace) /\ Valid(doc[1]) /\ Len(doc[1]["servers"]) >= 1)
    => LET servers == doc[1]["servers"]
           matches == {i \in DOMAIN servers :
                         \/ args.server = None
                         \/ servers[i]["name"] = args.server[1]}
       IN IF matches # {}
          THEN /\ cfg.server = Some(servers[Min(matches)])
               /\ err # "AttributeError"
               /\ args.server = None => cfg.server = Some(servers[1])
          ELSE /\ pc = "error" /\ err = "AttributeError"
               /\ cfg.server = None
               /\ trace[Len(trace)] = "getServer"
               /\ cfg.token = << >> /\ acquireCalls = 0
               /\ ~ENABLED Next

C4_Witness ==
    /\ pc = "error" /\ err = "AttributeError"
    /\ args.server = Some("b")
    /\ Len(doc[1]["servers"]) = 2
    /\ \A i \in 1..2 : doc[1]["servers"][i]["name"] = "a"

StageOrder == <<"verifyConfigFile", "load", "validate", "getServer",
                "getToken", "serverFields", "palettes", "keymaps", "keyed",
                "sizeColumn">>

\* C5: the stages run in the order locate, load, validate, select the
\* server, get the token, merge, and a stage that fails ends the run.
\* With no configuration file at any candidate path the run exits after
\* the first stage with nothing loaded; with a document the schema rejects
\* it ends at validation: nothing is merged, the collaborator is not
\* asked, the credential file is as it was.
C5_FailFast ==
    /\ \A i \in DOMAIN trace : i <= Len(StageOrder) /\ trace[i] = StageOrder[i]
    /\ pc \in {"exit", "error"} => ~ENABLED Next
    /\ (trace # << >> /\ exists = {})
       => /\ pc = "exit" /\ err = "SystemExit(1)"
          /\ trace = <<"verifyConfigFile">>
          /\ doc = None /\ cfg = IdleCfg
          /\ acquireCalls = 0 /\ fs = cred0
    /\ (Len(trace) >= 3 /\ ~Valid(doc[1]))
       => /\ pc = "error" /\ err = "MultipleInvalid"
          /\ Len(trace) = 3
          /\ cfg.server = None /\ cfg.palettes = << >> /\ cfg.keymaps = << >>
          /\ cfg.dashboards = << >> /\ cfg.size_column = None
          /\ acquireCalls = 0 /\ fs = cred0

C5_Witness ==
    /\ pc = "error" /\ err = "MultipleInvalid"
    /\ "bogus" \in DOMAIN doc[1]
    /\ cred0.exists

\* C6: two processes inside getToken for one server whose token the store
\* does not hold: when both have returned, each returns the token it
\* acquired and the file holds a well-formed mapping, the one of the
\* latest write: it is never empty and never a mixture of two writes.
C6_LastWriterWins ==
    (/\ \A p \in Procs : proc[p].pc = "returned"
     /\ proc[1].name = proc[2].name
     /\ InStore(cred0, proc[1].name) = << >>)
    => /\ \A p \in Procs :
             proc[p].acquired # None => proc[p].token = proc[p].acquired[1]
       /\ fs.data # << >>
       /\ Parse(fs.data).ok
       /\ Parse(fs.data).map = Parse(lastWrite).map

HasSlash(u) == Len(u) > 0 /\ u[Len(u)] = "/"

UrlResolved(server, key, field, default) ==
    /\ HasSlash(field)
    /\ IF key \in DOMAIN server
       THEN field = IF HasSlash(server[key]) THEN server[key]
                    ELSE server[key] \o <<"/">>
       ELSE field = default

\* C7: api-url, url and git-url of the selected server resolve alike: the
\* given value with a "/" appended unless it ends in one, the key's default
\* when the profile leaves the key out.
C7_UrlsNormalized ==
    "serverFields" \in Range(trace)
    => /\ UrlResolved(cfg.server[1], "api-url", cfg.api_url,
                      <<"a", "p", "i", ".", "g", "h", "/">>)
       /\ UrlResolved(cfg.server[1], "url", cfg.url, <<"g", "h", "/">>)
       /\ UrlResolved(cfg.server[1], "git-url", cfg.git_url, <<"g", "h", "/">>)

\* What an entry of a named collection holds under key k after the merge:
\* the value of the last document entry of that name giving k, else the
\* built-in entry's value, else nothing
NamedValue(list, builtin, name, k) ==
    LET idx == {i \in DOMAIN list : list[i]["name"] = name /\ k \in DOMAIN list[i]}
    IN IF idx # {} THEN Some(list[Max(idx)][k])
       ELSE IF name \in DOMAIN builtin /\ k \in DOMAIN builtin[name]
       THEN Some(builtin[name][k])
       ELSE None

NamedMerged(res, list, builtin) ==
    /\ DOMAIN res = DOMAIN builtin \cup {list[i]["name"] : i \in DOMAIN list}
    /\ \A name \in DOMAIN res :
          /\ DOMAIN res[name] \subseteq {"k1", "k2", "k3"}
          /\ \A k \in {"k1", "k2", "k3"} :
                LET v == NamedValue(list, builtin, name, k)
                IN IF v = None THEN k \notin DOMAIN res[name]
                   ELSE k \in DOMAIN res[name] /\ res[name][k] = v[1]

NamedSelected(stage, res, chosen, name) ==
    IF name \in DOMAIN res
    THEN chosen = Some(res[name]) /\ ~(pc = "error" /\ trace[Len(trace)] = stage)
    ELSE /\ chosen = None
         /\ pc = "error" /\ err = "KeyError" /\ trace[Len(trace)] = stage

\* C8: palettes and keymaps are merged by name: an entry of a name already
\* there (built-in or merged before) overwrites that entry's keys it gives
\* and leaves the others, an entry of a new name is added; the built-in
\* names stay; selecting a name that is neither built-in nor in the
\* document fails with a KeyError.
C8_NamedMerge ==
    /\ "palettes" \in Range(trace)
       => /\ NamedMerged(cfg.palettes, Get(doc[1], "palettes", << >>),
                         [default |-> << >>,
                          light |-> [k1 |-> "L1", k3 |-> "L3"]])
          /\ {"default", "light"} \subseteq DOMAIN cfg.palettes
          /\ NamedSelected("palettes", cfg.palettes, cfg.palette,
                           Get(doc[1], "palette", args.palette))
    /\ "keymaps" \in Range(trace)
       => /\ NamedMerged(cfg.keymaps, Get(doc[1], "keymaps", << >>),
                         [default |-> << >>,
                          vi |-> [k1 |-> "V1", k3 |-> "V3"]])
          /\ {"default", "vi"} \subseteq DOMAIN cfg.keymaps
          /\ NamedSelected("keymaps", cfg.keymaps, cfg.keymap,
                           Get(doc[1], "keymap", args.keymap))

C8_Witness ==
    /\ pc = "done"
    /\ "palettes" \in DOMAIN doc[1]
    /\ doc[1]["palettes"] = <<[name |-> "light", k1 |-> "x"],
                              [name |-> "light", k2 |-> "x"]>>
    /\ cfg.palettes["light"] = [k1 |-> "x", k2 |-> "x", k3 |-> "L3"]

FirstAt(list, key) == Min({i \in DOMAIN list : list[i]["key"] = key})
LastAt(list, key) == Max({i \in DOMAIN list : list[i]["key"] = key})

KeyedInPlace(od, list) ==
    /\ \A i, j \in DOMAIN od : i # j => od[i].key # od[j].key
    /\ {od[i].key : i \in DOMAIN od} = {list[i]["key"] : i \in DOMAIN list}
    /\ \A i, j \in DOMAIN od :
          i < j => FirstAt(list, od[i].key) < FirstAt(list, od[j].key)
    /\ \A i \in DOMAIN od : od[i].value = list[LastAt(list, od[i].key)]

\* C9: dashboards and reviewkeys hold one item per distinct key, the keys
\* in the order of their first occurrence in the document, each with the
\* last document entry of that key.
C9_KeyedInPlace ==
    "keyed" \in Range(trace)
    => /\ KeyedInPlace(cfg.dashboards, Get(doc[1], "dashboards", << >>))
       /\ KeyedInPlace(cfg.reviewkeys, Get(doc[1], "reviewkeys", << >>))

C9_Witness ==
    /\ pc = "done"
    /\ Len(Get(doc[1], "dashboards", << >>)) = 3
    /\ doc[1]["dashboards"][1]["key"] = "f1"
    /\ doc[1]["dashboards"][2]["key"] = "f2"
    /\ doc[1]["dashboards"][3]["key"] = "f1"
    /\ doc[1]["dashboards"][1]["name"] # doc[1]["dashboards"][3]["name"]
    /\ Len(cfg.dashboards) = 2
    /\ cfg.dashboards[1].value = doc[1]["dashboards"][3]

\* C10: without thresholds in the document the size column of type graph
\* gets <<1, 10, 100, 1000>> and of type split-graph or number
\* <<1, 10, 100, 200, 400, 600, 800, 1000>>; thresholds the document gives
\* are kept for every type.
C10_Thresholds ==
    pc = "done"
    => LET given == Get(doc[1], "size-column", << >>)
           type == Get(given, "type", "graph")
           res == cfg.size_column[1]
       IN /\ res["type"] = type
          /\ "thresholds" \in DOMAIN given
             => res["thresholds"] = given["thresholds"]
          /\ ("thresholds" \notin DOMAIN given /\ type = "graph")
             => res["thresholds"] = <<1, 10, 100, 1000>>
          /\ ("thresholds" \notin DOMAIN given /\ type \in {"split-graph", "number"})
             => res["thresholds"] = <<1, 10, 100, 200, 400, 600, 800, 1000>>

C10_Witness ==
    /\ pc = "done"
    /\ "size-column" \in DOMAIN doc[1]
    /\ doc[1]["size-column"] = [type |-> "number"]
    /\ Len(cfg.size_column[1]["thresholds"]) = 8

=============================================================================
